---- MODULE Spec2Model ----
(***************************************************************************)
(* Web trader alerts handler (monitor/web/js/alerts.js).                   *)
(*                                                                         *)
(* The page keeps two keyed collections, window.active_alerts and          *)
(* window.alerts, fed by push events (create / signal / remove), by the    *)
(* two GET requests of window.fetch_alerts and, for removal, by a DELETE   *)
(* request whose answer only produces notifications.                       *)
(*                                                                         *)
(* Strings that the code parses (alert keys, market ids) are sequences of  *)
(* one-character strings, so that '+', split(':') and parseInt are         *)
(* computed as JavaScript computes them.  Texts that are only displayed    *)
(* are tuples of their parts.                                              *)
(***************************************************************************)
EXTENDS Integers, Sequences, FiniteSets, TLC

VARIABLES
    active_alerts,     \* window.active_alerts : key -> alert
    alerts,            \* window.alerts        : key -> alert
    active_rows,       \* rows of div.active-alert-list-entries tbody, first row first
    alert_rows,        \* rows of div.alert-list-entries tbody, first row first
    active_requests,   \* GET strategy/alert requests in flight, in issue order
    hist_requests,     \* GET strategy/historical-alert requests in flight, in issue order
    delete_requests,   \* DELETE strategy/alert requests in flight, in issue order
    notified,          \* notify() calls made by the handler that ran last
    played,            \* audio_notify() calls made by the handler that ran last
    returned,          \* value returned by the handler that ran last
    history            \* the handlers that ran last, most recent first (observer)

vars == <<active_alerts, alerts, active_rows, alert_rows, active_requests,
          hist_requests, delete_requests, notified, played, returned, history>>

-----------------------------------------------------------------------------
(* Bounds of the model *)

MaxRows == 2        \* rows kept in each table
MaxFetch == 2       \* GET requests in flight per endpoint
MaxDelete == 1      \* DELETE requests in flight
MaxList == 2        \* length of a GET response list
MaxMessages == 2    \* length of the messages of a DELETE response

-----------------------------------------------------------------------------
(* JavaScript values *)

Undefined == "undefined"

Min(a, b) == IF a < b THEN a ELSE b

DigitChars == <<"0", "1", "2", "3", "4", "5", "6", "7", "8", "9">>

HexChars == <<"0", "1", "2", "3", "4", "5", "6", "7", "8", "9",
              "a", "b", "c", "d", "e", "f">>

\* index of character c in table t, 0 when absent
RECURSIVE IndexOf(_, _, _)
IndexOf(t, c, i) ==
    IF i > Len(t) THEN 0
    ELSE IF t[i] = c THEN i
    ELSE IndexOf(t, c, i + 1)

\* Number -> String: the decimal text of an integer
RECURSIVE NatToStr(_)
NatToStr(n) ==
    IF n < 10 THEN <<DigitChars[n + 1]>>
    ELSE NatToStr(n \div 10) \o <<DigitChars[(n % 10) + 1]>>

NumToStr(n) == IF n < 0 THEN <<"-">> \o NatToStr(0 - n) ELSE NatToStr(n)

\* String.prototype.split with a one-character separator
RECURSIVE SplitFrom(_, _, _, _)
SplitFrom(s, sep, i, cur) ==
    IF i > Len(s) THEN <<cur>>
    ELSE IF s[i] = sep THEN <<cur>> \o SplitFrom(s, sep, i + 1, <<>>)
    ELSE SplitFrom(s, sep, i + 1, Append(cur, s[i]))

Split(s, sep) == SplitFrom(s, sep, 1, <<>>)

\* value of the longest prefix of s[i..] made of digits of the radix, and
\* the number of digits read
RECURSIVE ReadDigits(_, _, _, _, _)
ReadDigits(s, radix, i, acc, n) ==
    IF i > Len(s) THEN [val |-> acc, count |-> n]
    ELSE LET d == IndexOf(HexChars, s[i], 1)
         IN  IF d = 0 \/ d > radix THEN [val |-> acc, count |-> n]
             ELSE ReadDigits(s, radix, i + 1, acc * radix + (d - 1), n + 1)

RECURSIVE SkipSpaces(_, _)
SkipSpaces(s, i) ==
    IF i <= Len(s) /\ s[i] = " " THEN SkipSpaces(s, i + 1) ELSE i

\* parseInt(s) without a radix: leading blanks, a sign, a 0x prefix, then
\* the digits; NaN when no digit is read
parseInt(s) ==
    LET i0   == SkipSpaces(s, 1)
        neg  == i0 <= Len(s) /\ s[i0] = "-"
        i1   == IF i0 <= Len(s) /\ s[i0] \in {"-", "+"} THEN i0 + 1 ELSE i0
        hex  == i1 + 1 <= Len(s) /\ s[i1] = "0" /\ s[i1 + 1] \in {"x", "X"}
        r    == IF hex THEN ReadDigits(s, 16, i1 + 2, 0, 0)
                ELSE ReadDigits(s, 10, i1, 0, 0)
    IN  IF r.count = 0 THEN [nan |-> TRUE, val |-> 0]
        ELSE [nan |-> FALSE, val |-> IF neg THEN 0 - r.val ELSE r.val]

\* truthiness of a number (NaN and 0 are falsy) and of a string ("" is falsy)
NumberTruthy(x) == ~x.nan /\ x.val # 0

StringTruthy(s) == Len(s) > 0

\* whether obj[name] is defined
Has(obj, name) == name \in DOMAIN obj

\* the keys that `for (k in obj[name])` enumerates: the indexes of an array,
\* nothing when obj[name] is undefined
ForInKeys(obj, name) ==
    IF Has(obj, name) THEN [i \in 1..Len(obj[name]) |-> i] ELSE <<>>

\* obj[key] = value on a keyed object
Put(obj, key, value) ==
    [k \in DOMAIN obj \cup {key} |-> IF k = key THEN value ELSE obj[k]]

\* delete obj[key]
Delete(obj, key) == [k \in DOMAIN obj \ {key} |-> obj[k]]

EmptyObject == [k \in {} |-> Undefined]

-----------------------------------------------------------------------------
(* The page's environment *)

M1 == <<"M", "1">>
M2 == <<"M", "2">>

\* window.markets: only M1 is a known market
markets == [m \in {M1} |-> [market_id |-> M1, symbol |-> <<"S", "1">>]]

\* server.permissions
permissions == {"strategy-trader"}

\* format_price(market_id, price) of the page's utilities
format_price(market_id, price) == <<"price", market_id, price>>

\* the global `alert` that alert_name_format and alert_cancellation_format
\* read: window.alert, a function without a `direction` property
GlobalAlert == [name |-> "alert"]

\* obj[name] < 0, false when the property is undefined
PropBelowZero(obj, name) == IF Has(obj, name) THEN obj[name] < 0 ELSE FALSE

-----------------------------------------------------------------------------
(* Formatting *)

price_src_to_str(price_src) ==
    CASE price_src = 0 -> "bid"
      [] price_src = 1 -> "ask"
      [] price_src = 2 -> "mid"
      [] OTHER -> ""

alert_name_format(alert_data, market_id, price_src) ==
    IF alert_data.name = "price-cross"
    THEN IF alert_data.direction > 0
         THEN <<"if", price_src, "price goes above",
                format_price(market_id, alert_data.price)>>
         ELSE IF PropBelowZero(GlobalAlert, "direction")
         THEN <<"if", price_src, "price goes below",
                format_price(market_id, alert_data.price)>>
         ELSE <<"-">>
    ELSE <<"-">>

alert_cancellation_format(alert_data, market_id, price_src) ==
    IF alert_data.cancellation > 0
    THEN IF alert_data.direction > 0
         THEN <<"if", price_src, "price <",
                format_price(market_id, alert_data.cancellation)>>
         ELSE IF PropBelowZero(GlobalAlert, "direction")
         THEN <<"if", price_src, "price >",
                format_price(market_id, alert_data.cancellation)>>
         ELSE <<"never">>
    ELSE <<"never">>

-----------------------------------------------------------------------------
(* The handlers, as functions of the page's state w *)

\* the page's state a handler starts from: nothing notified or played yet
World ==
    [active_alerts |-> active_alerts, alerts |-> alerts,
     active_rows |-> active_rows, alert_rows |-> alert_rows,
     notified |-> <<>>, played |-> <<>>]

\* market_id + ':' + id
AlertKey(market_id, id) == market_id \o <<":">> \o NumToStr(id)

MarketSymbol(market_id) ==
    IF market_id \in DOMAIN markets THEN markets[market_id].symbol ELSE market_id

\* the threshold of the cleanup of window.alerts
CleanupAbove == 200

\* "cleanup above 200 alerts": the loop over the keys has an empty body
Cleanup(obj) == IF Cardinality(DOMAIN obj) > CleanupAbove THEN obj ELSE obj

\* a variant: an alert that fires leaves the active alerts
on_strategy_signal_alert_consume(w, market_id, alert_id, alert, do_notify) ==
    LET key == AlertKey(market_id, alert.id)
        row == [key |-> key, id |-> alert.id, symbol |-> MarketSymbol(market_id)]
        msg == <<alert.name, alert.reason, alert.symbol, alert.message>>
        nw  == IF do_notify
               THEN [w EXCEPT
                       !.notified = Append(@, [message |-> msg,
                                               title |-> "Strategy Alert",
                                               type |-> "info"]),
                       !.played = Append(@, "alert")]
               ELSE w
    IN  [nw EXCEPT !.alert_rows = <<row>> \o @,
                   !.alerts = Cleanup(Put(@, key, alert)),
                   !.active_alerts = IF key \in DOMAIN @ THEN Delete(@, key) ELSE @]

on_strategy_signal_alert(w, market_id, alert_id, alert, do_notify) ==
    LET key == AlertKey(market_id, alert.id)
        row == [key |-> key, id |-> alert.id, symbol |-> MarketSymbol(market_id)]
        msg == <<alert.name, alert.reason, alert.symbol, alert.message>>
        nw  == IF do_notify
               THEN [w EXCEPT
                       !.notified = Append(@, [message |-> msg,
                                               title |-> "Strategy Alert",
                                               type |-> "info"]),
                       !.played = Append(@, "alert")]
               ELSE w
    IN  [nw EXCEPT !.alert_rows = <<row>> \o @,
                   !.alerts = Cleanup(Put(@, key, alert))]

\* a slip: an alert already held under the key is kept
on_strategy_create_alert_keep_first(w, market_id, alert_id, alert, do_notify) ==
    LET key == AlertKey(market_id, alert_id)
        row == [key |-> key, id |-> alert.id, symbol |-> MarketSymbol(market_id),
                condition |->
                    alert_name_format(alert, market_id,
                                      price_src_to_str(alert.price_src)),
                cancellation |->
                    alert_cancellation_format(alert, market_id,
                                              price_src_to_str(alert.price_src)),
                remove |-> "strategy-trader" \in permissions]
        msg == <<alert.name,
                 alert_name_format(alert, market_id, price_src_to_str(alert.price_src)),
                 alert.symbol, alert.message>>
        nw  == IF do_notify
               THEN [w EXCEPT
                       !.notified = Append(@, [message |-> msg,
                                               title |-> "Strategy Alert Created",
                                               type |-> "info"])]
               ELSE w
    IN  [nw EXCEPT !.active_rows = <<row>> \o @,
                   !.active_alerts = IF key \in DOMAIN @ THEN @ ELSE Put(@, key, alert)]

\* a variant: the creation of an alert is played as a fired alert is
on_strategy_create_alert_with_sound(w, market_id, alert_id, alert, do_notify) ==
    LET key == AlertKey(market_id, alert_id)
        row == [key |-> key, id |-> alert.id, symbol |-> MarketSymbol(market_id),
                condition |->
                    alert_name_format(alert, market_id,
                                      price_src_to_str(alert.price_src)),
                cancellation |->
                    alert_cancellation_format(alert, market_id,
                                              price_src_to_str(alert.price_src)),
                remove |-> "strategy-trader" \in permissions]
        msg == <<alert.name,
                 alert_name_format(alert, market_id, price_src_to_str(alert.price_src)),
                 alert.symbol, alert.message>>
        nw  == IF do_notify
               THEN [w EXCEPT
                       !.notified = Append(@, [message |-> msg,
                                               title |-> "Strategy Alert Created",
                                               type |-> "info"]),
                       !.played = Append(@, "alert")]
               ELSE w
    IN  [nw EXCEPT !.active_rows = <<row>> \o @,
                   !.active_alerts = Put(@, key, alert)]

on_strategy_create_alert(w, market_id, alert_id, alert, do_notify) ==
    LET key == AlertKey(market_id, alert_id)
        price_src == price_src_to_str(alert.price_src)
        condition_msg == alert_name_format(alert, market_id, price_src)
        cancellation_msg == alert_cancellation_format(alert, market_id, price_src)
        row == [key |-> key, id |-> alert.id, symbol |-> MarketSymbol(market_id),
                condition |-> condition_msg, cancellation |-> cancellation_msg,
                remove |-> "strategy-trader" \in permissions]
        msg == <<alert.name, condition_msg, alert.symbol, alert.message>>
        nw  == IF do_notify
               THEN [w EXCEPT
                       !.notified = Append(@, [message |-> msg,
                                               title |-> "Strategy Alert Created",
                                               type |-> "info"])]
               ELSE w
    IN  [nw EXCEPT !.active_rows = <<row>> \o @,
                   !.active_alerts = Put(@, key, alert)]

\* a slip: the whole collection is dropped with the key
on_strategy_remove_alert_clear_all(w, market_id, alert_id) ==
    LET key == AlertKey(market_id, alert_id)
    IN  [w EXCEPT !.active_rows = SelectSeq(@, LAMBDA r : r.key # key),
                  !.active_alerts = IF key \in DOMAIN @ THEN EmptyObject ELSE @]

\* a slip: only the row is removed
on_strategy_remove_alert_row_only(w, market_id, alert_id) ==
    LET key == AlertKey(market_id, alert_id)
    IN  [w EXCEPT !.active_rows = SelectSeq(@, LAMBDA r : r.key # key)]

on_strategy_remove_alert(w, market_id, alert_id) ==
    LET key == AlertKey(market_id, alert_id)
    IN  [w EXCEPT !.active_rows = SelectSeq(@, LAMBDA r : r.key # key),
                  !.active_alerts = IF key \in DOMAIN @ THEN Delete(@, key) ELSE @]

\* the body of the loop of the first .done of fetch_alerts, over the list
RECURSIVE LoadActive(_, _, _)
LoadActive(w, list, i) ==
    IF i > Len(list) THEN w
    ELSE LET alert == list[i]
             w1 == [w EXCEPT !.active_alerts =
                        Put(@, AlertKey(alert.market_id, alert.id), alert)]
         IN  LoadActive(on_strategy_create_alert(w1, alert.market_id, alert.id,
                                                 alert, FALSE),
                        list, i + 1)

\* a slip: the answer is merged into the collection instead of replacing it
active_done_merge(w, result) ==
    IF ~Has(result, "data") THEN w ELSE LoadActive(w, result.data, 1)

\* fetch_alerts, first .done(result)
active_done(w, result) ==
    LET w0 == [w EXCEPT !.active_alerts = EmptyObject]
    IN  IF ~Has(result, "data") THEN w0 ELSE LoadActive(w0, result.data, 1)

\* a slip: the failure callback resets the collection as .done does
active_fail_reset(w) ==
    [w EXCEPT !.active_alerts = EmptyObject,
              !.notified = Append(@, [message |-> <<"Unable to obtains actives alerts !">>,
                                      title |-> "fetching\"",
                                      type |-> "error"])]

\* fetch_alerts, first .fail()
active_fail(w) ==
    [w EXCEPT !.notified = Append(@, [message |-> <<"Unable to obtains actives alerts !">>,
                                      title |-> "fetching\"",
                                      type |-> "error"])]

RECURSIVE LoadHistorical(_, _, _)
LoadHistorical(w, list, i) ==
    IF i > Len(list) THEN w
    ELSE LET alert == list[i]
             w1 == [w EXCEPT !.alerts =
                        Put(@, AlertKey(alert.market_id, alert.id), alert)]
         IN  LoadHistorical(on_strategy_signal_alert(w1, alert.market_id, alert.id,
                                                     alert, FALSE),
                            list, i + 1)

\* a slip: the answer is merged into the collection instead of replacing it
historical_done_merge(w, result) ==
    IF ~Has(result, "data") THEN w ELSE LoadHistorical(w, result.data, 1)

\* fetch_alerts, second .done(result)
historical_done(w, result) ==
    LET w0 == [w EXCEPT !.alerts = EmptyObject]
    IN  IF ~Has(result, "data") THEN w0 ELSE LoadHistorical(w0, result.data, 1)

\* fetch_alerts, second .fail()
historical_fail(w) ==
    [w EXCEPT !.notified = Append(@, [message |-> <<"Unable to obtains historical alerts !">>,
                                      title |-> "fetching\"",
                                      type |-> "error"])]

\* a slip: the test of the number of parts is left out, and a key without
\* a second part reads its alert id as undefined
on_remove_alert_unchecked(key) ==
    LET parts == Split(key, ":")
        market_id == parts[1]
        alert_id == IF Len(parts) < 2 THEN [nan |-> TRUE, val |-> 0]
                    ELSE parseInt(parts[2])
    IN  IF /\ StringTruthy(market_id)
           /\ market_id \in DOMAIN markets
           /\ NumberTruthy(alert_id)
        THEN [ret |-> Undefined,
              sent |-> <<[type |-> "DELETE",
                          market_id |-> markets[market_id].market_id,
                          alert_id |-> alert_id.val,
                          action |-> "del-alert"]>>]
        ELSE [ret |-> Undefined, sent |-> <<>>]

\* on_remove_alert(elt), with key the result of retrieve_alert_key(elt):
\* the value returned and the requests sent
on_remove_alert(key) ==
    LET parts == Split(key, ":")
    IN  IF Len(parts) # 2 THEN [ret |-> "false", sent |-> <<>>]
        ELSE LET market_id == parts[1]
                 alert_id == parseInt(parts[2])
             IN  IF /\ StringTruthy(market_id)
                    /\ market_id \in DOMAIN markets
                    /\ NumberTruthy(alert_id)
                 THEN [ret |-> Undefined,
                       sent |-> <<[type |-> "DELETE",
                                   market_id |-> markets[market_id].market_id,
                                   alert_id |-> alert_id.val,
                                   action |-> "del-alert"]>>]
                 ELSE [ret |-> Undefined, sent |-> <<>>]

\* the notifications of the loop over the keys of data.messages in .done
RECURSIVE NotifyMessages(_, _, _)
NotifyMessages(data, keys, i) ==
    IF i > Len(keys) THEN <<>>
    ELSE <<[message |-> data.messages[keys[i]], title |-> "Remove Alert",
            type |-> "error"]>> \o NotifyMessages(data, keys, i + 1)

\* a slip: the loop notifies the key instead of the message, as .fail does
remove_done_keys(w, data) ==
    IF Has(data, "error") /\ data.error
    THEN [w EXCEPT !.notified =
            @ \o [j \in 1..Len(ForInKeys(data, "messages")) |->
                    [message |-> <<NumToStr(j - 1)>>, title |-> "Remove Alert",
                     type |-> "error"]]]
    ELSE [w EXCEPT !.notified = Append(@, [message |-> <<"Success">>,
                                           title |-> "Remove Alert",
                                           type |-> "success"])]

\* a variant: the alerts are dropped as soon as the server acknowledges
remove_done_optimistic(w, data) ==
    IF Has(data, "error") /\ data.error
    THEN w
    ELSE [w EXCEPT !.active_alerts = EmptyObject,
                   !.notified = Append(@, [message |-> <<"Success">>,
                                           title |-> "Remove Alert",
                                           type |-> "success"])]

\* on_remove_alert, .done(data)
remove_done(w, data) ==
    IF Has(data, "error") /\ data.error
    THEN [w EXCEPT !.notified = @ \o NotifyMessages(data, ForInKeys(data, "messages"), 1)]
    ELSE [w EXCEPT !.notified = Append(@, [message |-> <<"Success">>,
                                           title |-> "Remove Alert",
                                           type |-> "success"])]

\* the notifications of the loop over the keys of data.messages in .fail:
\* the message is the key
RECURSIVE NotifyKeys(_, _)
NotifyKeys(keys, i) ==
    IF i > Len(keys) THEN <<>>
    ELSE <<[message |-> <<NumToStr(keys[i] - 1)>>, title |-> "Remove Alert", type |-> "error"]>>
         \o NotifyKeys(keys, i + 1)

\* on_remove_alert, .fail(data): data is the jqXHR object
remove_fail(w, data) ==
    [w EXCEPT !.notified = @ \o NotifyKeys(ForInKeys(data, "messages"), 1)]

-----------------------------------------------------------------------------
(* Inputs *)

Directions == {1, -1}

\* an active alert as the server sends it
ActiveAlert(market_id, id, direction) ==
    [id |-> id, market_id |-> market_id, symbol |-> MarketSymbol(market_id),
     name |-> "price-cross", direction |-> direction, price_src |-> 0,
     price |-> 100, cancellation |-> IF direction > 0 THEN 95 ELSE 0,
     message |-> "msg"]

Reasons == {"cross-up", "cross-down"}

\* a fired alert as the server sends it
SignalAlert(market_id, id, reason) ==
    [id |-> id, market_id |-> market_id, symbol |-> MarketSymbol(market_id),
     name |-> "price-cross", reason |-> reason, message |-> "msg"]

ActiveAlerts(M, I, D) == {ActiveAlert(m, i, d) : m \in M, i \in I, d \in D}

SignalAlerts(M, I, R) == {SignalAlert(m, i, r) : m \in M, i \in I, r \in R}

\* the lists of at most n elements of S
Lists(S, n) == UNION {[1..k -> S] : k \in 0..n}

\* the answers of a GET: a list under `data`, or an answer without `data`
Results(S) == {[data |-> l] : l \in Lists(S, MaxList)} \cup {[error |-> TRUE]}

ServerMessages == {<<"unknown alert">>, <<"not allowed">>}

\* the answers of the DELETE
RemoveResults ==
    {[error |-> FALSE], [error |-> TRUE]}
    \cup {[error |-> TRUE, messages |-> l] : l \in Lists(ServerMessages, MaxMessages)}

\* the jqXHR object a .fail callback receives: it has no `messages`
JqXHRs == {[status |-> s, statusText |-> "error"] : s \in {0, 500}}

\* the keys handed to on_remove_alert
MalformedKeys ==
    {<<"E", "U", "R", "U", "S", "D">>, <<>>,
     M1 \o <<":", "1", ":", "2">>,
     M1 \o <<":">>, M1 \o <<":", "x">>, M1 \o <<":", "0">>,
     M1 \o <<":", "-", "1">>, M1 \o <<":", "2", "x">>,
     <<":", "1">>, M2 \o <<":", "1">>}

-----------------------------------------------------------------------------
(* Actions: one per handler or callback.  h is the number of past handlers  *)
(* the observer `history` keeps.  The tables grow with every row added; the *)
(* specifications below let a handler run when its rows fit in MaxRows.     *)

\* the rows a GET answer adds to a table
RowsOf(result) == IF Has(result, "data") THEN Len(result.data) ELSE 0

ActiveRoom(n) == Len(active_rows) + n <= MaxRows

AlertRoom(n) == Len(alert_rows) + n <= MaxRows

\* the handler op, the key it was given, the place in flight of the request
\* it answers and the answer it received
Event(op, key, idx, data) == [op |-> op, key |-> key, idx |-> idx, data |-> data]

NoData == [none |-> TRUE]

Remember(ev, h) == SubSeq(<<ev>> \o history, 1, Min(h, Len(history) + 1))

\* s without its i-th element
RemoveAt(s, i) == SubSeq(s, 1, i - 1) \o SubSeq(s, i + 1, Len(s))

Commit(w, ret, ev, h) ==
    /\ active_alerts' = w.active_alerts
    /\ alerts' = w.alerts
    /\ active_rows' = w.active_rows
    /\ alert_rows' = w.alert_rows
    /\ notified' = w.notified
    /\ played' = w.played
    /\ returned' = ret
    /\ history' = Remember(ev, h)

\* push event: an alert was created
StrategyCreateAlert(market_id, alert_id, alert, h) ==
    /\ Commit(on_strategy_create_alert(World, market_id, alert_id, alert, TRUE),
              Undefined, Event("create", AlertKey(market_id, alert_id), 0, alert), h)
    /\ UNCHANGED <<active_requests, hist_requests, delete_requests>>

\* push event: an alert fired
StrategySignalAlert(market_id, alert_id, alert, h) ==
    /\ Commit(on_strategy_signal_alert(World, market_id, alert_id, alert, TRUE),
              Undefined, Event("signal", AlertKey(market_id, alert_id), 0, alert), h)
    /\ UNCHANGED <<active_requests, hist_requests, delete_requests>>

\* push event: an alert was removed
StrategyRemoveAlert(market_id, alert_id, h) ==
    /\ Commit(on_strategy_remove_alert(World, market_id, alert_id),
              Undefined, Event("remove", AlertKey(market_id, alert_id), 0, NoData), h)
    /\ UNCHANGED <<active_requests, hist_requests, delete_requests>>

\* window.fetch_alerts(): both GET requests are sent
FetchAlerts(h) ==
    /\ Len(active_requests) < MaxFetch
    /\ Len(hist_requests) < MaxFetch
    /\ active_requests' = Append(active_requests,
                                 [type |-> "GET", endpoint |-> "strategy/alert"])
    /\ hist_requests' = Append(hist_requests,
                               [type |-> "GET", endpoint |-> "strategy/historical-alert"])
    /\ Commit(World, Undefined, Event("fetch", <<>>, 0, NoData), h)
    /\ UNCHANGED delete_requests

\* a variant: only the answer of the request issued last is applied
ActiveDone_latest_only(i, result, h) ==
    /\ i \in 1..Len(active_requests)
    /\ active_requests' = RemoveAt(active_requests, i)
    /\ Commit(IF i = Len(active_requests) THEN active_done(World, result) ELSE World,
              Undefined, Event("active_done", <<>>, i, result), h)
    /\ UNCHANGED <<hist_requests, delete_requests>>

\* the i-th GET strategy/alert in flight is answered
ActiveDone(i, result, h) ==
    /\ i \in 1..Len(active_requests)
    /\ active_requests' = RemoveAt(active_requests, i)
    /\ Commit(active_done(World, result), Undefined, Event("active_done", <<>>, i, result), h)
    /\ UNCHANGED <<hist_requests, delete_requests>>

\* the i-th GET strategy/alert in flight fails
ActiveFail(i, h) ==
    /\ i \in 1..Len(active_requests)
    /\ active_requests' = RemoveAt(active_requests, i)
    /\ Commit(active_fail(World), Undefined, Event("active_fail", <<>>, i, NoData), h)
    /\ UNCHANGED <<hist_requests, delete_requests>>

\* the i-th GET strategy/historical-alert in flight is answered
HistoricalDone(i, result, h) ==
    /\ i \in 1..Len(hist_requests)
    /\ hist_requests' = RemoveAt(hist_requests, i)
    /\ Commit(historical_done(World, result), Undefined,
              Event("historical_done", <<>>, i, result), h)
    /\ UNCHANGED <<active_requests, delete_requests>>

\* the i-th GET strategy/historical-alert in flight fails
HistoricalFail(i, h) ==
    /\ i \in 1..Len(hist_requests)
    /\ hist_requests' = RemoveAt(hist_requests, i)
    /\ Commit(historical_fail(World), Undefined, Event("historical_fail", <<>>, i, NoData), h)
    /\ UNCHANGED <<active_requests, delete_requests>>

\* click on a remove button: on_remove_alert runs with the key of the row
RemoveAlert(key, h) ==
    LET r == on_remove_alert(key)
    IN  /\ Len(delete_requests) + Len(r.sent) <= MaxDelete
        /\ delete_requests' = delete_requests \o r.sent
        /\ Commit(World, r.ret, Event("on_remove", key, 0, NoData), h)
        /\ UNCHANGED <<active_requests, hist_requests>>

\* the i-th DELETE in flight is answered
RemoveDone(i, data, h) ==
    /\ i \in 1..Len(delete_requests)
    /\ delete_requests' = RemoveAt(delete_requests, i)
    /\ Commit(remove_done(World, data), Undefined, Event("remove_done", <<>>, i, data), h)
    /\ UNCHANGED <<active_requests, hist_requests>>

\* the i-th DELETE in flight fails
RemoveFail(i, data, h) ==
    /\ i \in 1..Len(delete_requests)
    /\ delete_requests' = RemoveAt(delete_requests, i)
    /\ Commit(remove_fail(World, data), Undefined, Event("remove_fail", <<>>, i, data), h)
    /\ UNCHANGED <<active_requests, hist_requests>>

-----------------------------------------------------------------------------
(* The page: every handler, with the alerts the server sends for the        *)
(* (market, id) of the event                                                *)

Init ==
    /\ active_alerts = EmptyObject
    /\ alerts = EmptyObject
    /\ active_rows = <<>>
    /\ alert_rows = <<>>
    /\ active_requests = <<>>
    /\ hist_requests = <<>>
    /\ delete_requests = <<>>
    /\ notified = <<>>
    /\ played = <<>>
    /\ returned = Undefined
    /\ history = <<>>

\* the events of the page: one market, one alert id
PageMarkets == {M1}

PageIds == {1}

PageKeys == {AlertKey(M1, 1), <<"E", "U", "R", "U", "S", "D">>, M1 \o <<":", "0">>}

PushCreate ==
    \E m \in PageMarkets, i \in PageIds :
        ActiveRoom(1) /\ StrategyCreateAlert(m, i, ActiveAlert(m, i, 1), 1)

PushSignal ==
    \E m \in PageMarkets, i \in PageIds :
        AlertRoom(1) /\ StrategySignalAlert(m, i, SignalAlert(m, i, "cross-up"), 1)

PushRemove ==
    \E m \in PageMarkets, i \in PageIds : StrategyRemoveAlert(m, i, 1)

Fetch == FetchAlerts(1)

ActiveAnswer ==
    \E i \in 1..MaxFetch, result \in Results(ActiveAlerts(PageMarkets, PageIds, {1})) :
        ActiveRoom(RowsOf(result)) /\ ActiveDone(i, result, 1)

ActiveFailure == \E i \in 1..MaxFetch : ActiveFail(i, 1)

HistoricalAnswer ==
    \E i \in 1..MaxFetch,
       result \in Results(SignalAlerts(PageMarkets, PageIds, {"cross-up"})) :
        AlertRoom(RowsOf(result)) /\ HistoricalDone(i, result, 1)

HistoricalFailure == \E i \in 1..MaxFetch : HistoricalFail(i, 1)

RemoveClick == \E key \in PageKeys : RemoveAlert(key, 1)

RemoveAnswer ==
    \E i \in 1..MaxDelete, data \in RemoveResults : RemoveDone(i, data, 1)

RemoveFailure == \E i \in 1..MaxDelete, data \in JqXHRs : RemoveFail(i, data, 1)

Next ==
    \/ PushCreate
    \/ PushSignal
    \/ PushRemove
    \/ Fetch
    \/ ActiveAnswer
    \/ ActiveFailure
    \/ HistoricalAnswer
    \/ HistoricalFailure
    \/ RemoveClick
    \/ RemoveAnswer
    \/ RemoveFailure

Spec == Init /\ [][Next]_vars

-----------------------------------------------------------------------------
(* The active alerts: two markets, the alert of each in two versions, and   *)
(* the two last handlers observed.  The historical requests of fetch_alerts *)
(* are answered with an empty list or fail.                                 *)

ActMarkets == {M1, M2}

ActIds == {1}

ActPushCreate ==
    \E m \in ActMarkets, i \in ActIds, d \in Directions :
        ActiveRoom(1) /\ StrategyCreateAlert(m, i, ActiveAlert(m, i, d), 2)

ActPushRemove ==
    \E m \in ActMarkets, i \in ActIds : StrategyRemoveAlert(m, i, 2)

ActFetch == FetchAlerts(2)

ActActiveAnswer ==
    \E i \in 1..MaxFetch,
       result \in Results(ActiveAlerts(ActMarkets, ActIds, Directions)) :
        ActiveRoom(RowsOf(result)) /\ ActiveDone(i, result, 2)

ActActiveFailure == \E i \in 1..MaxFetch : ActiveFail(i, 2)

ActHistoricalAnswer ==
    \E i \in 1..MaxFetch : HistoricalDone(i, [data |-> <<>>], 2)

ActHistoricalFailure == \E i \in 1..MaxFetch : HistoricalFail(i, 2)

NextActive ==
    \/ ActPushCreate
    \/ ActPushRemove
    \/ ActFetch
    \/ ActActiveAnswer
    \/ ActActiveFailure
    \/ ActHistoricalAnswer
    \/ ActHistoricalFailure

SpecActive == Init /\ [][NextActive]_vars

-----------------------------------------------------------------------------
(* The historical alerts under a stream of fired alerts: the server numbers *)
(* the alerts it fires 1, 2, 3, ...                                         *)

CapPushSignal ==
    LET id == Cardinality(DOMAIN alerts) + 1
    IN  /\ Cardinality(DOMAIN alerts) <= CleanupAbove
        /\ StrategySignalAlert(M1, id, SignalAlert(M1, id, "cross-up"), 1)

NextCap == CapPushSignal

SpecCap == Init /\ [][NextCap]_vars

\* C1: after any sequence of alert-fired events window.alerts holds at most
\* 200 entries (the oldest are removed when an insert would exceed 200).
C1_AtMost200 == Cardinality(DOMAIN alerts) <= CleanupAbove

-----------------------------------------------------------------------------
(* Observing the handlers *)

\* the handler that ran last, in the state reached
Last == history[1]

Ran(op) == history # <<>> /\ Last.op = op

\* this step runs the handler op
Runs(op) == history' # <<>> /\ history'[1].op = op

\* C2: a refresh that fails in transport leaves its collection and the other
\* one as they were and emits exactly one error notification; it removes only
\* its own request, and fetch_alerts can be called again afterwards.
C2_FailedRefreshKeepsCollections ==
    /\ [][Runs("active_fail") \/ Runs("historical_fail") =>
            /\ active_alerts' = active_alerts
            /\ alerts' = alerts
            /\ Len(notified') = 1
            /\ notified'[1].type = "error"
            /\ Len(active_requests') + Len(hist_requests')
                 = Len(active_requests) + Len(hist_requests) - 1]_vars
    /\ [](Ran("active_fail") \/ Ran("historical_fail") =>
            (Len(active_requests) < MaxFetch /\ Len(hist_requests) < MaxFetch
                => ENABLED Fetch))

\* a refresh failed while both collections held alerts, and another refresh
\* can be issued
C2_Witness ==
    /\ Ran("active_fail") \/ Ran("historical_fail")
    /\ DOMAIN active_alerts # {}
    /\ DOMAIN alerts # {}
    /\ ENABLED Fetch

\* the elements of a list
Range(list) == {list[j] : j \in 1..Len(list)}

\* the key (market-id, id) of an alert of a GET answer
KeyOf(alert) == AlertKey(alert.market_id, alert.id)

\* C3: when an active refresh completes with a list L, window.active_alerts
\* holds exactly the keys of the entries of L, each mapped to an entry of L
\* with that key (the last one), and nothing is notified.
C3_ActiveRefreshReplaces ==
    Ran("active_done") /\ Has(Last.data, "data") =>
        LET L == Last.data.data
        IN  /\ DOMAIN active_alerts = {KeyOf(e) : e \in Range(L)}
            /\ \A k \in DOMAIN active_alerts :
                  \E j \in 1..Len(L) :
                      /\ KeyOf(L[j]) = k
                      /\ active_alerts[k] = L[j]
                      /\ \A j2 \in (j + 1)..Len(L) : KeyOf(L[j2]) # k
            /\ notified = <<>>
            /\ played = <<>>

\* an active refresh completed with a non-empty list right after the
\* creation of an alert that the list does not hold
C3_Witness ==
    /\ Ran("active_done")
    /\ Len(history) = 2
    /\ history[2].op = "create"
    /\ history[2].key \notin DOMAIN active_alerts
    /\ DOMAIN active_alerts # {}

\* the two handlers that ran last, in the state reached
Previous == history[2]

RanTwo(op2, op1) == Len(history) >= 2 /\ Previous.op = op2 /\ Last.op = op1

ActAlerts == ActiveAlerts(ActMarkets, ActIds, Directions)

\* C4: with an active refresh answered [A, B] and a push-remove for the key
\* of A: when the remove is handled after the answer, the collection is
\* exactly {B}; when it is handled before the answer, the answer replaces the
\* collection, which is {A, B}.
C4_RemoveAndRefresh ==
    \A A \in ActAlerts, B \in ActAlerts :
        KeyOf(A) # KeyOf(B) =>
            /\ ( /\ RanTwo("active_done", "remove")
                  /\ Previous.data = [data |-> <<A, B>>]
                  /\ Last.key = KeyOf(A) )
                => active_alerts = [k \in {KeyOf(B)} |-> B]
            /\ ( /\ RanTwo("remove", "active_done")
                  /\ Previous.key = KeyOf(A)
                  /\ Last.data = [data |-> <<A, B>>] )
                => active_alerts = [k \in {KeyOf(A), KeyOf(B)} |->
                                      IF k = KeyOf(A) THEN A ELSE B]

\* the push-remove of A was handled while the refresh was in flight, and the
\* answer [A, B] put A back
C4_Witness ==
    \E A \in ActAlerts, B \in ActAlerts :
        /\ KeyOf(A) # KeyOf(B)
        /\ RanTwo("remove", "active_done")
        /\ Previous.key = KeyOf(A)
        /\ Last.data = [data |-> <<A, B>>]
        /\ DOMAIN active_alerts = {KeyOf(A), KeyOf(B)}

\* the collection a list loads: each key with the last entry of the list
\* that has it
ContentOf(L) ==
    [k \in {KeyOf(e) : e \in Range(L)} |->
        L[CHOOSE j \in 1..Len(L) :
            /\ KeyOf(L[j]) = k
            /\ \A j2 \in (j + 1)..Len(L) : KeyOf(L[j2]) # k]]

\* C5: when two refreshes of a collection are in flight at once and both
\* are answered, the collection is the answer received last, whichever was
\* issued first; an answer takes only its own request out of flight, and any
\* request in flight can be answered.
C5_LastCompletedWins ==
    /\ [](/\ ( /\ Ran("active_done")
                /\ Has(Last.data, "data")
                /\ \/ Len(active_requests) > 0
                   \/ RanTwo("active_done", "active_done") )
              => active_alerts = ContentOf(Last.data.data)
          /\ ( /\ Ran("historical_done")
                /\ Has(Last.data, "data")
                /\ \/ Len(hist_requests) > 0
                   \/ RanTwo("historical_done", "historical_done") )
              => alerts = ContentOf(Last.data.data)
          /\ \A i \in 1..Len(active_requests) :
                ENABLED ActiveDone(i, [data |-> <<>>], 2)
          /\ \A i \in 1..Len(hist_requests) :
                ENABLED HistoricalDone(i, [data |-> <<>>], 2))
    /\ [][(Runs("active_done") =>
              (/\ Len(active_requests') = Len(active_requests) - 1
               /\ hist_requests' = hist_requests))
          /\ (Runs("historical_done") =>
              (/\ Len(hist_requests') = Len(hist_requests) - 1
               /\ active_requests' = active_requests))]_vars

\* of two refreshes in flight, the one issued last was answered first and
\* the one issued first was answered last, with another content, which is
\* the collection
C5_Witness ==
    /\ RanTwo("active_done", "active_done")
    /\ Previous.idx = 2
    /\ Last.idx = 1
    /\ Has(Last.data, "data")
    /\ Has(Previous.data, "data")
    /\ DOMAIN active_alerts # {}
    /\ active_alerts = ContentOf(Last.data.data)
    /\ active_alerts # ContentOf(Previous.data.data)

\* C6: the alert-created event handled twice for one key leaves one entry
\* for the key, the alert of the later event; a create adds or replaces the
\* entry of its key and leaves every other entry as it was.
C6_CreateTwice ==
    /\ []( ( /\ RanTwo("create", "create")
              /\ Previous.key = Last.key )
            => /\ Last.key \in DOMAIN active_alerts
               /\ active_alerts[Last.key] = Last.data )
    /\ [][Runs("create") =>
            /\ DOMAIN active_alerts' = DOMAIN active_alerts \cup {history'[1].key}
            /\ \A k \in DOMAIN active_alerts \ {history'[1].key} :
                  active_alerts'[k] = active_alerts[k]]_vars

\* the same key was created twice in a row, with other field values the
\* second time
C6_Witness ==
    /\ RanTwo("create", "create")
    /\ Previous.key = Last.key
    /\ Previous.data # Last.data
    /\ active_alerts[Last.key] = Last.data
    /\ Len(SelectSeq(active_rows, LAMBDA r : r.key = Last.key)) = 2

-----------------------------------------------------------------------------
(* The removal requests: every key, well formed or not, against a           *)
(* collection of two alerts                                                 *)

RemIds == {1, 2}

RemKeys == {AlertKey(M1, i) : i \in RemIds} \cup MalformedKeys

RemPushCreate ==
    \E i \in RemIds :
        ActiveRoom(1) /\ StrategyCreateAlert(M1, i, ActiveAlert(M1, i, 1), 1)

RemPushRemove == \E i \in RemIds : StrategyRemoveAlert(M1, i, 1)

RemClick == \E key \in RemKeys : RemoveAlert(key, 1)

RemAnswer ==
    \E i \in 1..MaxDelete, data \in RemoveResults : RemoveDone(i, data, 1)

RemFailure == \E i \in 1..MaxDelete, data \in JqXHRs : RemoveFail(i, data, 1)

NextRemove ==
    \/ RemPushCreate
    \/ RemPushRemove
    \/ RemClick
    \/ RemAnswer
    \/ RemFailure

SpecRemove == Init /\ [][NextRemove]_vars

\* the number of colons of a key
Colons(key) == Cardinality({j \in 1..Len(key) : key[j] = ":"})

\* C7: a removal request for a key that does not split into exactly two
\* colon-separated parts (no colon, as "EURUSD", or several) sends no request
\* and returns false.
C7_MalformedKeyRejected ==
    [][Runs("on_remove") /\ Colons(history'[1].key) # 1 =>
        /\ delete_requests' = delete_requests
        /\ returned' = "false"]_vars

\* on_remove_alert ran with the key "EURUSD" while a DELETE could have been
\* sent
C7_Witness ==
    /\ Ran("on_remove")
    /\ Last.key = <<"E", "U", "R", "U", "S", "D">>
    /\ returned = "false"
    /\ delete_requests = <<>>
    /\ DOMAIN active_alerts # {}

\* the text of a positive integer: digits, not all of them 0
PositiveIntegerText(s) ==
    /\ Len(s) > 0
    /\ \A j \in 1..Len(s) : IndexOf(DigitChars, s[j], 1) > 0
    /\ \E j \in 1..Len(s) : s[j] # "0"

\* the key is a non-empty id of a known market, a colon and a positive integer
WellFormedKey(key) ==
    \E j \in 2..Len(key) :
        /\ key[j] = ":"
        /\ SubSeq(key, 1, j - 1) \in DOMAIN markets
        /\ PositiveIntegerText(SubSeq(key, j + 1, Len(key)))

\* C8: a removal request is sent only for a key made of the non-empty id of
\* a known market and a positive integer alert id; for every other key no
\* request is sent, nothing is notified and the collections are unchanged.
C8_OnlyWellFormedKeysSent ==
    [][Runs("on_remove") /\ ~WellFormedKey(history'[1].key) =>
        /\ delete_requests' = delete_requests
        /\ notified' = <<>>
        /\ active_alerts' = active_alerts
        /\ alerts' = alerts]_vars

\* C9: a removal request (its rejection, its sending, its answer or its
\* failure) changes neither collection; an entry leaves window.active_alerts
\* only by a push-remove event for its key or by the answer of an active
\* refresh.
C9_RemovalRequestLeavesStore ==
    [][/\ (Runs("on_remove") \/ Runs("remove_done") \/ Runs("remove_fail")) =>
            (active_alerts' = active_alerts /\ alerts' = alerts)
       /\ \A k \in DOMAIN active_alerts :
            k \notin DOMAIN active_alerts' =>
                \/ Runs("remove") /\ history'[1].key = k
                \/ Runs("active_done")]_vars

\* the server acknowledged a removal, and the alert is still held
C9_Witness ==
    /\ Ran("remove_done")
    /\ Len(notified) = 1
    /\ notified[1].type = "success"
    /\ AlertKey(M1, 1) \in DOMAIN active_alerts
    /\ DOMAIN alerts # {}

\* C10: the answer of a removal with an error and n messages produces n
\* failure notifications, the i-th with the text of the i-th message; an
\* answer without error produces one success notification.
C10_OneNotificationPerMessage ==
    Ran("remove_done") =>
        LET d == Last.data
            n == IF Has(d, "messages") THEN Len(d.messages) ELSE 0
        IN  IF d.error
            THEN /\ Len(notified) = n
                 /\ \A j \in 1..n :
                      /\ notified[j].message = d.messages[j]
                      /\ notified[j].type = "error"
            ELSE /\ Len(notified) = 1
                 /\ notified[1].type = "success"

\* an answer with an error and two different messages was notified
C10_Witness ==
    /\ Ran("remove_done")
    /\ Has(Last.data, "messages")
    /\ Len(Last.data.messages) = 2
    /\ Last.data.messages[1] # Last.data.messages[2]
    /\ Len(notified) = 2

-----------------------------------------------------------------------------
(* The failures of the remote calls *)

\* the handler that ran last is the callback of a remote call that failed:
\* a GET or the DELETE failed in transport, or the DELETE was answered with
\* an error
FailureHandled ==
    \/ Ran("active_fail")
    \/ Ran("historical_fail")
    \/ Ran("remove_fail")
    \/ Ran("remove_done") /\ Last.data.error

\* C11: every failure of a remote call (a refresh that fails in transport, a
\* removal answered with an error, a removal that fails in transport) produces
\* at least one failure notification.
C11_EveryFailureNotifies ==
    FailureHandled =>
        /\ Len(notified) >= 1
        /\ \A j \in 1..Len(notified) : notified[j].type = "error"

-----------------------------------------------------------------------------
(* The push events alone: two alert ids on one market, the payload carrying *)
(* an id of its own, and the two last handlers observed                     *)

PushIds == {1, 2}

PshCreate ==
    \E i \in PushIds, j \in PushIds :
        ActiveRoom(1) /\ StrategyCreateAlert(M1, i, ActiveAlert(M1, j, 1), 2)

PshSignal ==
    \E i \in PushIds, j \in PushIds :
        AlertRoom(1) /\ StrategySignalAlert(M1, i, SignalAlert(M1, j, "cross-up"), 2)

PshRemove == \E i \in PushIds : StrategyRemoveAlert(M1, i, 2)

NextPush ==
    \/ PshCreate
    \/ PshSignal
    \/ PshRemove

SpecPush == Init /\ [][NextPush]_vars

\* C12: a push-remove event for a key takes the entry of the key out of
\* window.active_alerts when it is there and changes nothing when it is not;
\* every other active entry and window.alerts stay as they were, nothing is
\* notified or played, and the handler ends normally.
C12_PushRemoveFrame ==
    [][Runs("remove") =>
        /\ DOMAIN active_alerts' = DOMAIN active_alerts \ {history'[1].key}
        /\ \A k \in DOMAIN active_alerts' : active_alerts'[k] = active_alerts[k]
        /\ alerts' = alerts
        /\ notified' = <<>>
        /\ played' = <<>>
        /\ returned' = Undefined]_vars

\* the alert created last was removed while another alert was active and a
\* fired alert was held
C12_Witness ==
    /\ RanTwo("create", "remove")
    /\ Previous.key = Last.key
    /\ Last.key \notin DOMAIN active_alerts
    /\ DOMAIN active_alerts # {}
    /\ DOMAIN alerts # {}

-----------------------------------------------------------------------------
(* The two collections *)

PageActiveResults == Results(ActiveAlerts(PageMarkets, PageIds, {1}))

PageHistoricalResults == Results(SignalAlerts(PageMarkets, PageIds, {"cross-up"}))

\* C13: the alert-created event, the alert-removed event and the answer of
\* the active refresh leave window.alerts as it was; the alert-fired event
\* and the answer of the historical refresh leave window.active_alerts as it
\* was (an alert that fires stays active); and the answers of the two
\* refreshes lead to the same state in either order.
C13_DisjointCollections ==
    /\ [][/\ (Runs("create") \/ Runs("remove") \/ Runs("active_done")) =>
                alerts' = alerts
          /\ (Runs("signal") \/ Runs("historical_done")) =>
                active_alerts' = active_alerts]_vars
    /\ [](\A ra \in PageActiveResults, rh \in PageHistoricalResults :
              historical_done(active_done(World, ra), rh)
                = active_done(historical_done(World, rh), ra))

\* an alert fired while it was active, and it is held by both collections
C13_Witness ==
    /\ Ran("signal")
    /\ Last.key \in DOMAIN active_alerts
    /\ Last.key \in DOMAIN alerts
    /\ Len(played) = 1

-----------------------------------------------------------------------------
(* The historical alerts: two markets, the alert of each fired for two      *)
(* reasons, and the two last handlers observed.  The active requests of     *)
(* fetch_alerts are answered with an empty list or fail.                    *)

HisMarkets == {M1, M2}

HisIds == {1}

HisPushSignal ==
    \E m \in HisMarkets, i \in HisIds, r \in Reasons :
        AlertRoom(1) /\ StrategySignalAlert(m, i, SignalAlert(m, i, r), 2)

HisFetch == FetchAlerts(2)

HisHistoricalAnswer ==
    \E i \in 1..MaxFetch,
       result \in Results(SignalAlerts(HisMarkets, HisIds, Reasons)) :
        AlertRoom(RowsOf(result)) /\ HistoricalDone(i, result, 2)

HisHistoricalFailure == \E i \in 1..MaxFetch : HistoricalFail(i, 2)

HisActiveAnswer ==
    \E i \in 1..MaxFetch : ActiveDone(i, [data |-> <<>>], 2)

HisActiveFailure == \E i \in 1..MaxFetch : ActiveFail(i, 2)

NextHistorical ==
    \/ HisPushSignal
    \/ HisFetch
    \/ HisHistoricalAnswer
    \/ HisHistoricalFailure
    \/ HisActiveAnswer
    \/ HisActiveFailure

SpecHistorical == Init /\ [][NextHistorical]_vars

\* C14: when a historical refresh completes with a list L, window.alerts
\* holds exactly the keys of the entries of L (what it held before and L
\* does not hold is gone), each mapped to the last entry of L with that key,
\* and nothing is notified or played.
C14_HistoricalRefreshReplaces ==
    Ran("historical_done") /\ Has(Last.data, "data") =>
        /\ DOMAIN alerts = {KeyOf(e) : e \in Range(Last.data.data)}
        /\ alerts = ContentOf(Last.data.data)
        /\ notified = <<>>
        /\ played = <<>>

\* a historical refresh completed with a non-empty list right after an alert
\* fired that the list does not hold
C14_Witness ==
    /\ RanTwo("signal", "historical_done")
    /\ Has(Last.data, "data")
    /\ Previous.key \notin DOMAIN alerts
    /\ DOMAIN alerts # {}

-----------------------------------------------------------------------------
(* Notifications and sound *)

\* C15: audio_notify is called exactly when an alert-fired event is handled
\* with do_notify true, once per event; an alert-created event plays nothing;
\* an event handled with do_notify true makes exactly one notification, and
\* the entries that a refresh loads (do_notify false) make none.
C15_SoundOnlyWhenFired ==
    [][/\ Runs("signal") => (played' = <<"alert">> /\ Len(notified') = 1)
       /\ Runs("create") => (played' = <<>> /\ Len(notified') = 1)
       /\ (Runs("active_done") \/ Runs("historical_done")) =>
             (played' = <<>> /\ notified' = <<>>)
       /\ played' # <<>> => Runs("signal")]_vars

\* an alert-fired event was notified once and played once, after the refresh
\* had loaded the same alert silently
C15_Witness ==
    /\ Ran("signal")
    /\ played = <<"alert">>
    /\ Len(notified) = 1
    /\ notified[1].title = "Strategy Alert"
    /\ Len(alert_rows) = 2

-----------------------------------------------------------------------------
(* The condition texts: alerts of every kind, direction, price source and   *)
(* cancellation price, created on one key                                   *)

AlertNames == {"price-cross", "other"}

AllDirections == {1, 0, -1}

PriceSources == {0, 1, 2, 3}

\* cancellation price: 0 when unset
Cancellations == {0, 95}

FormatAlert(name, direction, price_src, cancellation) ==
    [id |-> 1, market_id |-> M1, symbol |-> MarketSymbol(M1),
     name |-> name, direction |-> direction, price_src |-> price_src,
     price |-> 100, cancellation |-> cancellation, message |-> "msg"]

FmtCreate ==
    \E n \in AlertNames, d \in AllDirections, p \in PriceSources, c \in Cancellations :
        ActiveRoom(1) /\ StrategyCreateAlert(M1, 1, FormatAlert(n, d, p, c), 1)

FmtRemove == StrategyRemoveAlert(M1, 1, 1)

NextFormat ==
    \/ FmtCreate
    \/ FmtRemove

SpecFormat == Init /\ [][NextFormat]_vars

\* the row and the notification of the alert-created event handled last
CreatedRow == active_rows[1]

\* the text "if {src} price {words} {formatted value}"
PriceText(alert, words, value) ==
    <<"if", price_src_to_str(alert.price_src), words,
      format_price(alert.market_id, value)>>

\* C16: the trigger condition of a "price-cross" alert reads "if {src} price
\* goes above {formatted price}" when its direction is above 0 and "if {src}
\* price goes below {formatted price}" when it is below 0; for any other kind
\* and for direction 0 it reads "-".
C16_TriggerText ==
    Ran("create") =>
        LET a == Last.data
        IN  /\ (a.name = "price-cross" /\ a.direction > 0) =>
                  CreatedRow.condition = PriceText(a, "price goes above", a.price)
            /\ (a.name = "price-cross" /\ a.direction < 0) =>
                  CreatedRow.condition = PriceText(a, "price goes below", a.price)
            /\ (a.name # "price-cross" \/ a.direction = 0) =>
                  CreatedRow.condition = <<"-">>

\* C17: the cancellation condition of an alert with a cancellation price
\* reads "if {src} price < {formatted cancellation price}" when its direction
\* is +1 and "if {src} price > {formatted cancellation price}" when it is -1;
\* without a cancellation price it reads "never".
C17_CancellationText ==
    Ran("create") =>
        LET a == Last.data
        IN  /\ (a.cancellation > 0 /\ a.direction = 1) =>
                  CreatedRow.cancellation = PriceText(a, "price <", a.cancellation)
            /\ (a.cancellation > 0 /\ a.direction = -1) =>
                  CreatedRow.cancellation = PriceText(a, "price >", a.cancellation)
            /\ a.cancellation = 0 =>
                  CreatedRow.cancellation = <<"never">>

-----------------------------------------------------------------------------
(* Answers without a list *)

\* C18: a refresh answered without an alert list (no `data` in the answer)
\* leaves the collection it refreshes with the content it had before the
\* answer.
C18_AnswerWithoutListKeepsCollection ==
    [][/\ (Runs("active_done") /\ ~Has(history'[1].data, "data")) =>
             active_alerts' = active_alerts
       /\ (Runs("historical_done") /\ ~Has(history'[1].data, "data")) =>
             alerts' = alerts]_vars

-----------------------------------------------------------------------------
(* The key of an alert *)

\* C19: an alert-created or alert-fired event with the arguments (market_id,
\* alert_id) stores its alert under the key made of these two arguments,
\* whatever id the alert itself carries, which is the key that the
\* alert-removed event with the same arguments looks up.
C19_KeyFromArguments ==
    /\ Ran("create") =>
          (Last.key \in DOMAIN active_alerts /\ active_alerts[Last.key] = Last.data)
    /\ Ran("signal") =>
          (Last.key \in DOMAIN alerts /\ alerts[Last.key] = Last.data)

-----------------------------------------------------------------------------
(* The rows of the active alerts *)

\* the rows of the active table that carry the key
RowsWithKey(key) == SelectSeq(active_rows, LAMBDA r : r.key = key)

\* C20: after any sequence of alert-created events, alert-removed events and
\* answers of the active refresh, the active table has exactly one row for
\* each key of window.active_alerts and no row for any other key.
C20_RowsAgreeWithCollection ==
    /\ \A k \in DOMAIN active_alerts : Len(RowsWithKey(k)) = 1
    /\ \A j \in 1..Len(active_rows) : active_rows[j].key \in DOMAIN active_alerts

====
